---- MODULE Spec2Model ----
(***************************************************************************)
(* Duplicate-detection engine of lastfm-scrobble-cleaner                   *)
(* (detect-duplicates.ts, the revision with the incomplete-replay          *)
(* detector: src/unnamed/part_001 lines 1-252).                            *)
(*                                                                         *)
(* A scrobble is [artist, name, uts]: artist["#text"], name and the        *)
(* integer parseInt(date.uts, 10).  The API delivers date.uts as a         *)
(* canonical decimal string, so equality of the strings (the keys of the   *)
(* Sets in detectDuplicates) is equality of the parsed integers.           *)
(* Durations are milliseconds; thresholds such as gap < durationSec * 0.9  *)
(* with durationSec = durationMs / 1000 are compared in integers           *)
(* (gap * 1000 * 10 < durationMs * 9), exact for integer timestamps.       *)
(***************************************************************************)
EXTENDS Integers, Sequences, FiniteSets, TLC

VARIABLES scrobbles, gapSeconds, durations, pc, sessions, replayScrobbles, durationDups, incompleteReplayDups, flagged, detectionResults

VARIABLES mem, dyn, hasDynamoGet, hasDynamoPut, calls, started, apiCalls, returned

detectVars == <<scrobbles, gapSeconds, durations, pc, sessions, replayScrobbles, durationDups, incompleteReplayDups, flagged, detectionResults>>

cacheVars == <<mem, dyn, hasDynamoGet, hasDynamoPut, calls, started, apiCalls, returned>>

VARIABLES env, config, hpc, server, page, totalPages, allScrobbles, result, summary, toDelete, delIdx, cookies, loginCalls, deleteCalls, emailsSent, pageLog

handlerVars == <<env, config, hpc, server, page, totalPages, allScrobbles, result, summary, toDelete, delIdx, cookies, loginCalls, deleteCalls, emailsSent, pageLog>>

VARIABLES webCookies, webLog

webVars == <<webCookies, webLog>>

vars == <<detectVars, cacheVars, handlerVars, webVars>>

(* ---------------- bounds and input sets ---------------- *)

MaxLen == 3

NULL == -1

MsPerSec == 1000

OverlapTenths == 9

ReplayTenths == 5

Tenths == 10

TrackKeys == {<<"X", "Song1">>, <<"X", "Song2">>, <<"Y", "Song2">>}

Gaps == {4, 8, 9}

GapSecondsChoices == {4, 8}

DurationAnswers == {NULL, 0, 10000}

(* ---------------- helpers ---------------- *)

Reverse(s) == [i \in 1..Len(s) |-> s[Len(s) + 1 - i]]

RECURSIVE Flatten(_)
Flatten(ss) == IF ss = <<>> THEN <<>> ELSE ss[1].scrobbles \o Flatten(Tail(ss))

Range(s) == {s[i] : i \in 1..Len(s)}

RECURSIVE Timeline(_, _, _)
Timeline(t0, tr, g) ==
  IF Len(tr) = 0 THEN <<>>
  ELSE <<[artist |-> tr[1][1], name |-> tr[1][2], uts |-> t0]>>
       \o (IF Len(tr) = 1 THEN <<>> ELSE Timeline(t0 + g[1], Tail(tr), Tail(g)))

AfterInPlaceReverse(scr) == Reverse(scr)

AfterSpreadReverse(scr) == scr

ChronoNoReverse(scr) == scr

Chrono(scr) == Reverse(scr)

SameTrack(a, b) == a.artist = b.artist /\ a.name = b.name

(* ---------------- groupIntoSessions ---------------- *)

StartsNewSessionGe(prev, curr, gap) == curr - prev >= gap

StartsNewSession(prev, curr, gap) == curr - prev > gap

RECURSIVE GroupLoop(_, _, _, _)
GroupLoop(chrono, i, gap, acc) ==
  IF i > Len(chrono) THEN acc
  ELSE IF StartsNewSession(chrono[i - 1].uts, chrono[i].uts, gap)
       THEN GroupLoop(chrono, i + 1, gap, Append(acc, [scrobbles |-> <<chrono[i]>>]))
       ELSE GroupLoop(chrono, i + 1, gap,
                      [acc EXCEPT ![Len(acc)].scrobbles = Append(@, chrono[i])])

groupIntoSessions(scr, gap) ==
  IF Len(scr) = 0 THEN <<>>
  ELSE LET chrono == Chrono(scr)
       IN GroupLoop(chrono, 2, gap, <<[scrobbles |-> <<chrono[1]>>]>>)

(* ---------------- detectSessionReplay ---------------- *)

detectSessionReplayFirstOfBefore(before, after) ==
  LET lastTrack == before.scrobbles[1]
      firstTrack == after.scrobbles[1]
  IN IF SameTrack(lastTrack, firstTrack) THEN <<firstTrack>> ELSE <<>>

detectSessionReplay(before, after) ==
  LET lastTrack == before.scrobbles[Len(before.scrobbles)]
      firstTrack == after.scrobbles[1]
  IN IF SameTrack(lastTrack, firstTrack) THEN <<firstTrack>> ELSE <<>>

RECURSIVE ReplayLoop(_, _, _)
ReplayLoop(ss, i, acc) ==
  IF i > Len(ss) - 1 THEN acc
  ELSE ReplayLoop(ss, i + 1, acc \o detectSessionReplay(ss[i], ss[i + 1]))

(* ---------------- detectDurationOverlaps ---------------- *)

IsOverlapWithinSession(gap, durationMs) ==
  gap <= gapSeconds /\ gap * MsPerSec * Tenths < durationMs * OverlapTenths

IsOverlapLe(gap, durationMs) == gap * MsPerSec * Tenths <= durationMs * OverlapTenths

IsOverlap(gap, durationMs) == gap * MsPerSec * Tenths < durationMs * OverlapTenths

OverlapFlaggedPrev(prev, curr) == prev

OverlapFlagged(prev, curr) == curr

RECURSIVE OverlapLoop(_, _, _, _)
OverlapLoop(chrono, i, getDuration, duplicates) ==
  IF i > Len(chrono) THEN duplicates
  ELSE LET prev == chrono[i - 1]
           curr == chrono[i]
       IN IF ~SameTrack(prev, curr)
          THEN OverlapLoop(chrono, i + 1, getDuration, duplicates)
          ELSE LET gap == curr.uts - prev.uts
                   durationMs == getDuration[<<curr.artist, curr.name>>]
               IN IF durationMs = NULL \/ durationMs = 0
                  THEN OverlapLoop(chrono, i + 1, getDuration, duplicates)
                  ELSE IF IsOverlap(gap, durationMs)
                       THEN OverlapLoop(chrono, i + 1, getDuration,
                                        Append(duplicates, OverlapFlagged(prev, curr)))
                       ELSE OverlapLoop(chrono, i + 1, getDuration, duplicates)

detectDurationOverlaps(scr, getDuration) ==
  OverlapLoop(Chrono(scr), 2, getDuration, <<>>)

(* ---------------- detectIncompleteReplays ---------------- *)

RECURSIVE FindRunEnd(_, _, _)
FindRunEnd(chrono, runStart, runEnd) ==
  IF runEnd + 1 <= Len(chrono) /\ SameTrack(chrono[runEnd + 1], chrono[runStart])
  THEN FindRunEnd(chrono, runStart, runEnd + 1)
  ELSE runEnd

CompletedNoLastRule(chrono, runEnd, globalIdx, durationMs) ==
  IF globalIdx = Len(chrono) THEN FALSE
  ELSE (chrono[globalIdx + 1].uts - chrono[globalIdx].uts) * MsPerSec * Tenths
         >= durationMs * OverlapTenths

CompletedWithinRun(chrono, runEnd, globalIdx, durationMs) ==
  IF globalIdx = runEnd THEN TRUE
  ELSE (chrono[globalIdx + 1].uts - chrono[globalIdx].uts) * MsPerSec * Tenths
         >= durationMs * OverlapTenths

Completed(chrono, runEnd, globalIdx, durationMs) ==
  IF globalIdx = Len(chrono) THEN TRUE
  ELSE (chrono[globalIdx + 1].uts - chrono[globalIdx].uts) * MsPerSec * Tenths
         >= durationMs * OverlapTenths

RECURSIVE PushCompletedOnly(_, _, _, _)
PushCompletedOnly(run, completed, i, duplicates) ==
  IF i > Len(run) THEN duplicates
  ELSE PushCompletedOnly(run, completed, i + 1,
                         IF completed[i] THEN Append(duplicates, run[i]) ELSE duplicates)

RECURSIVE PushNotCompleted(_, _, _, _)
PushNotCompleted(run, completed, i, duplicates) ==
  IF i > Len(run) THEN duplicates
  ELSE PushNotCompleted(run, completed, i + 1,
                        IF ~completed[i] THEN Append(duplicates, run[i]) ELSE duplicates)

AllOfRun(run) == run

RestOfRun(run) == Tail(run)

RECURSIVE IncompleteLoop(_, _, _, _)
IncompleteLoop(chrono, runStart, getDuration, duplicates) ==
  IF runStart > Len(chrono) THEN duplicates
  ELSE LET runEnd == FindRunEnd(chrono, runStart, runStart)
           durationMs == getDuration[<<chrono[runStart].artist, chrono[runStart].name>>]
           run == SubSeq(chrono, runStart, runEnd)
           completed == [idx \in 1..Len(run) |->
                           Completed(chrono, runEnd, runStart + idx - 1, durationMs)]
           anyCompleted == \E idx \in 1..Len(run) : completed[idx]
           next == IF runEnd > runStart /\ durationMs # NULL /\ durationMs > 0
                   THEN IF anyCompleted
                        THEN PushNotCompleted(run, completed, 1, duplicates)
                        ELSE duplicates \o RestOfRun(run)
                   ELSE duplicates
       IN IncompleteLoop(chrono, runEnd + 1, getDuration, next)

detectIncompleteReplays(scr, getDuration) ==
  IF Len(scr) < 2 THEN <<>>
  ELSE IncompleteLoop(Chrono(scr), 1, getDuration, <<>>)

(* ---------------- detectDuplicates: merge ---------------- *)

ReplayReasonSwapped(s, durationSet) ==
  IF s.uts \in durationSet THEN "session-replay" ELSE "both"

ReplayReason(s, durationSet) ==
  IF s.uts \in durationSet THEN "both" ELSE "session-replay"

RECURSIVE MergeReplay(_, _, _, _)
MergeReplay(rs, durationSet, seen, acc) ==
  IF rs = <<>> THEN [seen |-> seen, flagged |-> acc]
  ELSE MergeReplay(Tail(rs), durationSet, seen \cup {rs[1].uts},
                   Append(acc, [scrobble |-> rs[1],
                                reason |-> ReplayReason(rs[1], durationSet)]))

UnseenAlways(s, seen) == TRUE

Unseen(s, seen) == s.uts \notin seen

RECURSIVE MergeUnseen(_, _, _, _)
MergeUnseen(ds, reason, seen, acc) ==
  IF ds = <<>> THEN [seen |-> seen, flagged |-> acc]
  ELSE IF Unseen(ds[1], seen)
       THEN MergeUnseen(Tail(ds), reason, seen \cup {ds[1].uts},
                        Append(acc, [scrobble |-> ds[1], reason |-> reason]))
       ELSE MergeUnseen(Tail(ds), reason, seen, acc)

MergeSeenAcrossCalls(rs, dd, ir) ==
  LET durationSet == {dd[i].uts : i \in 1..Len(dd)}
      m1 == MergeReplay(rs, durationSet, {}, <<>>)
      m2 == MergeUnseen(dd, "duration-overlap", m1.seen, m1.flagged)
      m3 == MergeUnseen(ir, "incomplete-replay", m2.seen, m2.flagged)
      before == UNION {{detectionResults[r].flagged[i].scrobble.uts : i \in 1..Len(detectionResults[r].flagged)} :
                       r \in 1..Len(detectionResults)}
  IN SelectSeq(m3.flagged, LAMBDA f : f.scrobble.uts \notin before)

MergeIncompleteFirst(rs, dd, ir) ==
  LET durationSet == {dd[i].uts : i \in 1..Len(dd)}
      m1 == MergeReplay(rs, durationSet, {}, <<>>)
      m2 == MergeUnseen(ir, "incomplete-replay", m1.seen, m1.flagged)
      m3 == MergeUnseen(dd, "duration-overlap", m2.seen, m2.flagged)
  IN m3.flagged

Merge(rs, dd, ir) ==
  LET durationSet == {dd[i].uts : i \in 1..Len(dd)}
      m1 == MergeReplay(rs, durationSet, {}, <<>>)
      m2 == MergeUnseen(dd, "duration-overlap", m1.seen, m1.flagged)
      m3 == MergeUnseen(ir, "incomplete-replay", m2.seen, m2.flagged)
  IN m3.flagged

(* ---------------- duration-cache.ts: createDurationCache ---------------- *)

MaxCalls == 2

MaxGets == 3

NaN == -2

CacheArtists == {"X", "x", "Y"}

CacheTracks == {"Song1"}

DurationStrings == {<<"1", "0", "0", "0", "0">>, <<"0">>, <<>>, <<"a", "b", "c">>, <<"7", "s">>}

Digits == <<"0", "1", "2", "3", "4", "5", "6", "7", "8", "9">>

IsDigit(ch) == \E i \in 1..Len(Digits) : Digits[i] = ch

DigitValue(ch) == (CHOOSE i \in 1..Len(Digits) : Digits[i] = ch) - 1

RECURSIVE ParseDigits(_, _, _)
ParseDigits(str, i, acc) ==
  IF i > Len(str) \/ ~IsDigit(str[i]) THEN acc
  ELSE ParseDigits(str, i + 1, acc * 10 + DigitValue(str[i]))

parseInt(str) ==
  IF Len(str) >= 2 /\ str[1] = "-" /\ IsDigit(str[2]) THEN 0 - ParseDigits(str, 2, 0)
  ELSE IF Len(str) = 0 \/ ~IsDigit(str[1]) THEN NaN
  ELSE ParseDigits(str, 1, 0)

OrNull(n) == IF n = NaN \/ n = 0 THEN NULL ELSE n

toLowerCase(str) ==
  CASE str = "X" -> "x"
    [] str = "Y" -> "y"
    [] str = "Song1" -> "song1"
    [] OTHER -> str

CacheKey(artist, track) == toLowerCase(artist) \o "::" \o toLowerCase(track)

CacheKeys == {CacheKey(a, t) : a \in CacheArtists, t \in CacheTracks}

IdleCall == [pc |-> "idle", artist |-> "", track |-> "", key |-> "", value |-> NULL,
             dget |-> "none", api |-> "none", put |-> "none"]

MemSetSkipped(m, key, value) == m

MemSet(m, key, value) == [k \in DOMAIN m \cup {key} |-> IF k = key THEN value ELSE m[k]]

Resolve(call, value) == [call EXCEPT !.pc = "resolved", !.value = value]

OnApiRejectRethrow(call) == [call EXCEPT !.pc = "threw", !.api = "rejected"]

OnApiReject(call) == [Resolve(call, NULL) EXCEPT !.api = "rejected"]

OnPutRejectRethrow(call) == [call EXCEPT !.pc = "threw", !.put = "rejected"]

OnPutReject(call) == [Resolve(call, call.value) EXCEPT !.put = "rejected"]

CacheUnused ==
  /\ mem = <<>>
  /\ dyn = <<>>
  /\ hasDynamoGet = FALSE
  /\ hasDynamoPut = FALSE
  /\ calls = <<>>
  /\ started = 0
  /\ apiCalls = <<>>
  /\ returned = {}

CacheInit ==
  /\ mem = <<>>
  /\ dyn \in [CacheKeys -> {NULL, 20000}]
  /\ hasDynamoGet \in BOOLEAN
  /\ hasDynamoPut \in BOOLEAN
  /\ calls = [c \in 1..MaxCalls |-> IdleCall]
  /\ started = 0
  /\ apiCalls = [k \in CacheKeys |-> 0]
  /\ returned = {}

GetStart(c, artist, track) ==
  LET key == CacheKey(artist, track)
      call == [IdleCall EXCEPT !.artist = artist, !.track = track, !.key = key]
  IN /\ calls[c].pc \in {"idle", "resolved", "threw"}
     /\ started < MaxGets
     /\ started' = started + 1
     /\ IF key \in DOMAIN mem
        THEN /\ calls' = [calls EXCEPT ![c] = Resolve(call, mem[key])]
             /\ returned' = returned \cup {[key |-> key, value |-> mem[key]]}
             /\ UNCHANGED apiCalls
        ELSE IF hasDynamoGet
        THEN /\ calls' = [calls EXCEPT ![c] = [call EXCEPT !.pc = "dynamoGet"]]
             /\ UNCHANGED <<returned, apiCalls>>
        ELSE /\ calls' = [calls EXCEPT ![c] = [call EXCEPT !.pc = "api"]]
             /\ apiCalls' = [apiCalls EXCEPT ![key] = @ + 1]
             /\ UNCHANGED returned
     /\ UNCHANGED <<mem, dyn, hasDynamoGet, hasDynamoPut>>

DynamoGetResolve(c) ==
  LET call == calls[c]
      cached == dyn[call.key]
  IN /\ call.pc = "dynamoGet"
     /\ IF cached # NULL
        THEN /\ mem' = MemSet(mem, call.key, cached)
             /\ calls' = [calls EXCEPT ![c] = [Resolve(call, cached) EXCEPT !.dget = "hit"]]
             /\ returned' = returned \cup {[key |-> call.key, value |-> cached]}
             /\ UNCHANGED apiCalls
        ELSE /\ calls' = [calls EXCEPT ![c] = [call EXCEPT !.pc = "api", !.dget = "miss"]]
             /\ apiCalls' = [apiCalls EXCEPT ![call.key] = @ + 1]
             /\ UNCHANGED <<mem, returned>>
     /\ UNCHANGED <<dyn, hasDynamoGet, hasDynamoPut, started>>

DynamoGetReject(c) ==
  /\ calls[c].pc = "dynamoGet"
  /\ calls' = [calls EXCEPT ![c] = [@ EXCEPT !.pc = "threw", !.dget = "rejected"]]
  /\ UNCHANGED <<mem, dyn, hasDynamoGet, hasDynamoPut, started, apiCalls, returned>>

ApiResolve(c, str) ==
  LET call == calls[c]
      duration == OrNull(parseInt(str))
  IN /\ call.pc = "api"
     /\ mem' = MemSet(mem, call.key, duration)
     /\ IF duration # NULL /\ hasDynamoPut
        THEN /\ calls' = [calls EXCEPT ![c] = [call EXCEPT !.pc = "dynamoPut", !.value = duration, !.api = "ok"]]
             /\ UNCHANGED returned
        ELSE /\ calls' = [calls EXCEPT ![c] = [Resolve(call, duration) EXCEPT !.api = "ok"]]
             /\ returned' = returned \cup {[key |-> call.key, value |-> duration]}
     /\ UNCHANGED <<dyn, hasDynamoGet, hasDynamoPut, started, apiCalls>>

ApiReject(c) ==
  LET call == calls[c]
      after == OnApiReject(call)
  IN /\ call.pc = "api"
     /\ mem' = MemSet(mem, call.key, NULL)
     /\ calls' = [calls EXCEPT ![c] = after]
     /\ returned' = IF after.pc = "resolved"
                    THEN returned \cup {[key |-> call.key, value |-> after.value]}
                    ELSE returned
     /\ UNCHANGED <<dyn, hasDynamoGet, hasDynamoPut, started, apiCalls>>

DynamoPutResolve(c) ==
  LET call == calls[c]
  IN /\ call.pc = "dynamoPut"
     /\ dyn' = [dyn EXCEPT ![call.key] = call.value]
     /\ calls' = [calls EXCEPT ![c] = [Resolve(call, call.value) EXCEPT !.put = "ok"]]
     /\ returned' = returned \cup {[key |-> call.key, value |-> call.value]}
     /\ UNCHANGED <<mem, hasDynamoGet, hasDynamoPut, started, apiCalls>>

DynamoPutReject(c) ==
  LET call == calls[c]
      after == OnPutReject(call)
  IN /\ call.pc = "dynamoPut"
     /\ calls' = [calls EXCEPT ![c] = after]
     /\ returned' = IF after.pc = "resolved"
                    THEN returned \cup {[key |-> call.key, value |-> after.value]}
                    ELSE returned
     /\ UNCHANGED <<mem, dyn, hasDynamoGet, hasDynamoPut, started, apiCalls>>

DetectUnused ==
  /\ scrobbles = <<>>
  /\ gapSeconds = 0
  /\ durations = <<>>
  /\ pc = "unused"
  /\ sessions = <<>>
  /\ replayScrobbles = <<>>
  /\ durationDups = <<>>
  /\ incompleteReplayDups = <<>>
  /\ flagged = <<>>
  /\ detectionResults = <<>>

(* ---------------- inputs ---------------- *)

ScenarioTrackKeys == {<<"X", "Song1">>, <<"Y", "Song2">>}

ReplayShortGapScenario ==
  [scrobbles |-> << [artist |-> "Y", name |-> "Song2", uts |-> 1950],
                    [artist |-> "X", name |-> "Song1", uts |-> 1900],
                    [artist |-> "X", name |-> "Song1", uts |-> 1000] >>,
   gapSeconds |-> 1800,
   durations |-> [k \in ScenarioTrackKeys |-> IF k = <<"X", "Song1">> THEN 300000 ELSE NULL]]

RunTrackKeys == {<<"A", "T">>}

RunNoneCompletedScenario ==
  [scrobbles |-> << [artist |-> "A", name |-> "T", uts |-> 60],
                    [artist |-> "A", name |-> "T", uts |-> 30],
                    [artist |-> "A", name |-> "T", uts |-> 0] >>,
   gapSeconds |-> 1800,
   durations |-> [k \in RunTrackKeys |-> 200000]]

RunMixedCompletionScenario ==
  [scrobbles |-> << [artist |-> "A", name |-> "T", uts |-> 250],
                    [artist |-> "A", name |-> "T", uts |-> 30],
                    [artist |-> "A", name |-> "T", uts |-> 0] >>,
   gapSeconds |-> 1800,
   durations |-> [k \in RunTrackKeys |-> 200000]]

ScenarioInputs == {ReplayShortGapScenario, RunNoneCompletedScenario, RunMixedCompletionScenario}

(* ---------------- handler.ts, config.ts, lastfm-web.ts ---------------- *)

PageLimit == 2

Undefined == <<"<undefined>">>

UndefinedStr == "<undefined>"

DefaultMaxDeletions == <<"2", "0">>

DefaultSessionGap == <<"1", "8", "0", "0">>

OrDefault(value, default) == IF value = Undefined THEN default ELSE value

DryRunOnlyIfTrue(value) == value = "true"

DryRunOf(value) == value # "false"

loadConfig(e) ==
  [sessionGapSeconds |-> parseInt(OrDefault(e.SESSION_GAP_SECONDS, DefaultSessionGap)),
   maxDeletionsPerRun |-> parseInt(OrDefault(e.MAX_DELETIONS_PER_RUN, DefaultMaxDeletions)),
   dryRun |-> DryRunOf(e.DRY_RUN)]

Min(a, b) == IF a < b THEN a ELSE b

Max(a, b) == IF a > b THEN a ELSE b

SliceAll(seq, end) == seq

Slice(seq, end) ==
  IF end < 0 THEN SubSeq(seq, 1, Max(Len(seq) + end, 0))
  ELSE SubSeq(seq, 1, Min(end, Len(seq)))

detectDuplicates(scr, gap, getDuration) ==
  LET ss == groupIntoSessions(scr, gap)
      rs == ReplayLoop(ss, 1, <<>>)
      dd == detectDurationOverlaps(scr, getDuration)
      ir == detectIncompleteReplays(scr, getDuration)
  IN [flagged |-> Merge(rs, dd, ir), sessionCount |-> Len(ss), scrobbleCount |-> Len(scr)]

NoDuplicatesStream ==
  [scrobbles |-> << [artist |-> "Y", name |-> "Song2", uts |-> 400],
                    [artist |-> "X", name |-> "Song1", uts |-> 0] >>,
   gapSeconds |-> 1800,
   durations |-> [k \in ScenarioTrackKeys |-> 300000]]

ThreeDuplicatesStream ==
  [scrobbles |-> << [artist |-> "X", name |-> "Song1", uts |-> 2010],
                    [artist |-> "X", name |-> "Song1", uts |-> 2000],
                    [artist |-> "X", name |-> "Song1", uts |-> 0] >>,
   gapSeconds |-> 1800,
   durations |-> [k \in ScenarioTrackKeys |-> 3000000]]

EmptyStream ==
  [scrobbles |-> <<>>, gapSeconds |-> 1800, durations |-> [k \in ScenarioTrackKeys |-> NULL]]

HandlerStreams ==
  {EmptyStream, NoDuplicatesStream, ReplayShortGapScenario, RunNoneCompletedScenario,
   ThreeDuplicatesStream}

CeilDiv(n, d) == (n + d - 1) \div d

getRecentTracks(stream, limit, p) ==
  [tracks |-> SubSeq(stream, Min((p - 1) * limit + 1, Len(stream) + 1), Min(p * limit, Len(stream))),
   totalPages |-> CeilDiv(Len(stream), limit)]

NoSummary ==
  [scrobblesScanned |-> 0, sessionsFound |-> 0, duplicatesFound |-> 0, deleted |-> 0,
   failed |-> 0, dryRun |-> TRUE, deletedItems |-> <<>>, circuitBreakerTriggered |-> FALSE]

NoResult == [flagged |-> <<>>, sessionCount |-> 0, scrobbleCount |-> 0]

NoEnv ==
  [DRY_RUN |-> UndefinedStr, MAX_DELETIONS_PER_RUN |-> Undefined,
   SESSION_GAP_SECONDS |-> Undefined, SNS_TOPIC_ARN |-> FALSE]

NoConfig == [sessionGapSeconds |-> 0, maxDeletionsPerRun |-> 0, dryRun |-> TRUE]

HandlerUnused ==
  /\ env = NoEnv
  /\ config = NoConfig
  /\ hpc = "unused"
  /\ server = EmptyStream
  /\ page = 0
  /\ totalPages = 0
  /\ allScrobbles = <<>>
  /\ result = NoResult
  /\ summary = NoSummary
  /\ toDelete = <<>>
  /\ delIdx = 0
  /\ cookies = "undefined"
  /\ loginCalls = 0
  /\ deleteCalls = <<>>
  /\ emailsSent = 0
  /\ pageLog = <<>>

HandlerInit ==
  /\ env \in [DRY_RUN : {UndefinedStr, "false", "true", "FALSE"},
              MAX_DELETIONS_PER_RUN : {Undefined, <<"0">>, <<"1">>, <<"2">>, <<"-", "1">>},
              SESSION_GAP_SECONDS : {Undefined},
              SNS_TOPIC_ARN : BOOLEAN]
  /\ config = NoConfig
  /\ hpc = "start"
  /\ server \in HandlerStreams
  /\ page = 1
  /\ totalPages = 1
  /\ allScrobbles = <<>>
  /\ result = NoResult
  /\ summary = NoSummary
  /\ toDelete = <<>>
  /\ delIdx = 0
  /\ cookies = "undefined"
  /\ loginCalls = 0
  /\ deleteCalls = <<>>
  /\ emailsSent = 0
  /\ pageLog = <<>>

SendSummaryIfTopic == emailsSent' = IF env.SNS_TOPIC_ARN THEN emailsSent + 1 ELSE emailsSent

HLoadConfig ==
  /\ hpc = "start"
  /\ config' = loadConfig(env)
  /\ hpc' = "fetch"
  /\ UNCHANGED <<env, server, page, totalPages, allScrobbles, result, summary, toDelete, delIdx, cookies, loginCalls, deleteCalls, emailsSent>>

LoopContinuesBelow(p, total) == p < total

LoopContinues(p, total) == p <= total

PageCall(p, res) == [page |-> p, tracks |-> res.tracks, totalPages |-> res.totalPages]

HFetchPage ==
  /\ hpc = "fetch"
  /\ LoopContinues(page, totalPages)
  /\ LET res == getRecentTracks(server.scrobbles, PageLimit, page)
     IN /\ allScrobbles' = allScrobbles \o res.tracks
        /\ totalPages' = res.totalPages
        /\ page' = page + 1
        /\ pageLog' = Append(pageLog, PageCall(page, res))
  /\ UNCHANGED <<env, config, hpc, server, result, summary, toDelete, delIdx, cookies, loginCalls, deleteCalls, emailsSent>>

InitialSummary ==
  [NoSummary EXCEPT !.scrobblesScanned = Len(allScrobbles), !.dryRun = config.dryRun]

HNoScrobbles ==
  /\ hpc = "fetch"
  /\ ~LoopContinues(page, totalPages)
  /\ Len(allScrobbles) = 0
  /\ summary' = InitialSummary
  /\ SendSummaryIfTopic
  /\ hpc' = "returned"
  /\ UNCHANGED <<env, config, server, page, totalPages, allScrobbles, result, toDelete, delIdx, cookies, loginCalls, deleteCalls>>

DetectionResult == detectDuplicates(allScrobbles, config.sessionGapSeconds, server.durations)

DeletedItem(f) ==
  [artist |-> f.scrobble.artist, track |-> f.scrobble.name, reason |-> f.reason,
   timestamp |-> f.scrobble.uts]

HNoDuplicates ==
  /\ hpc = "fetch"
  /\ ~LoopContinues(page, totalPages)
  /\ Len(allScrobbles) # 0
  /\ Len(DetectionResult.flagged) = 0
  /\ result' = DetectionResult
  /\ summary' = [InitialSummary EXCEPT !.sessionsFound = DetectionResult.sessionCount,
                                       !.duplicatesFound = 0]
  /\ SendSummaryIfTopic
  /\ hpc' = "returned"
  /\ UNCHANGED <<env, config, server, page, totalPages, allScrobbles, toDelete, delIdx, cookies, loginCalls, deleteCalls>>

HDuplicatesFound ==
  /\ hpc = "fetch"
  /\ ~LoopContinues(page, totalPages)
  /\ Len(allScrobbles) # 0
  /\ Len(DetectionResult.flagged) # 0
  /\ LET res == DetectionResult
         cut == Slice(res.flagged, config.maxDeletionsPerRun)
     IN /\ result' = res
        /\ toDelete' = cut
        /\ summary' = [InitialSummary EXCEPT
                         !.sessionsFound = res.sessionCount,
                         !.duplicatesFound = Len(res.flagged),
                         !.circuitBreakerTriggered = Len(res.flagged) > config.maxDeletionsPerRun,
                         !.deletedItems = [i \in 1..Len(cut) |-> DeletedItem(cut[i])]]
  /\ IF config.dryRun
     THEN SendSummaryIfTopic /\ hpc' = "returned"
     ELSE UNCHANGED emailsSent /\ hpc' = "login"
  /\ UNCHANGED <<env, config, server, page, totalPages, allScrobbles, delIdx, cookies, loginCalls, deleteCalls>>

HLoginOk ==
  /\ hpc = "login"
  /\ loginCalls' = loginCalls + 1
  /\ cookies' = "session"
  /\ delIdx' = 1
  /\ hpc' = "delete"
  /\ UNCHANGED <<env, config, server, page, totalPages, allScrobbles, result, summary, toDelete, deleteCalls, emailsSent>>

HLoginFail ==
  /\ hpc = "login"
  /\ loginCalls' = loginCalls + 1
  /\ hpc' = "threw"
  /\ UNCHANGED <<env, config, server, page, totalPages, allScrobbles, result, summary, toDelete, delIdx, cookies, deleteCalls, emailsSent>>

DeleteOutcomes == {"true", "false", "status403", "statusNotOk"}

ErrorMessage(outcome) ==
  IF outcome = "status403" THEN "Session expired (403). Re-authentication needed."
  ELSE "Delete failed with status 500"

IncludesAnything(message) == TRUE

Includes403(message) == message = "Session expired (403). Re-authentication needed."

DeleteRequest(f) ==
  [artist |-> f.scrobble.artist, track |-> f.scrobble.name, timestamp |-> f.scrobble.uts]

DeleteAttempt(f, outcome) == DeleteRequest(f) @@ [outcome |-> outcome]

CountDeleted(sm) == [sm EXCEPT !.deleted = @ + 1]

CountFailedSkipped(sm) == sm

CountFailed(sm) == [sm EXCEPT !.failed = @ + 1]

HDelete(outcome) ==
  /\ hpc = "delete"
  /\ delIdx <= Len(toDelete)
  /\ cookies # "undefined"
  /\ deleteCalls' = Append(deleteCalls, DeleteAttempt(toDelete[delIdx], outcome))
  /\ IF outcome = "true"
     THEN /\ summary' = CountDeleted(summary)
          /\ delIdx' = delIdx + 1
          /\ UNCHANGED hpc
     ELSE /\ summary' = CountFailed(summary)
          /\ IF outcome # "false" /\ Includes403(ErrorMessage(outcome))
             THEN hpc' = "relogin" /\ UNCHANGED delIdx
             ELSE delIdx' = delIdx + 1 /\ UNCHANGED hpc
  /\ UNCHANGED <<env, config, server, page, totalPages, allScrobbles, result, toDelete, cookies, loginCalls, emailsSent>>

HReLoginOk ==
  /\ hpc = "relogin"
  /\ loginCalls' = loginCalls + 1
  /\ cookies' = "session"
  /\ delIdx' = delIdx + 1
  /\ hpc' = "delete"
  /\ UNCHANGED <<env, config, server, page, totalPages, allScrobbles, result, summary, toDelete, deleteCalls, emailsSent>>

HReLoginFail ==
  /\ hpc = "relogin"
  /\ loginCalls' = loginCalls + 1
  /\ hpc' = "stopped"
  /\ UNCHANGED <<env, config, server, page, totalPages, allScrobbles, result, summary, toDelete, delIdx, cookies, deleteCalls, emailsSent>>

HFinish ==
  /\ \/ hpc = "delete" /\ delIdx > Len(toDelete)
     \/ hpc = "stopped"
  /\ SendSummaryIfTopic
  /\ hpc' = "returned"
  /\ UNCHANGED <<env, config, server, page, totalPages, allScrobbles, result, summary, toDelete, delIdx, cookies, loginCalls, deleteCalls>>

(* ---------------- lastfm-web.ts: createWebClient ---------------- *)

MaxWebCalls == 3

NoCookies == [sessionid |-> UndefinedStr, csrftoken |-> UndefinedStr, raw |-> UndefinedStr]

LoginPageCsrfTokens == {UndefinedStr, "", "t1"}

LoginSessionIds == {UndefinedStr, "", "s1", "s2"}

LoginPostCsrfTokens == {UndefinedStr, "t2"}

Falsy(str) == str = UndefinedStr \/ str = ""

Coalesce(value, default) == IF value = UndefinedStr THEN default ELSE value

NewCookies(sessionid, newCsrf) ==
  [sessionid |-> sessionid, csrftoken |-> newCsrf,
   raw |-> "sessionid=" \o sessionid \o "; csrftoken=" \o newCsrf]

NotLoggedInNever(c) == FALSE

NotLoggedIn(c) == c = NoCookies

CookiesAfterFailedLoginCleared(c) == NoCookies

CookiesAfterFailedLogin(c) == c

WebCall(op, error, value, sent, before, after) ==
  [op |-> op, error |-> error, value |-> value, sent |-> sent, before |-> before, after |-> after]

WebUnused ==
  /\ webCookies = NoCookies
  /\ webLog = <<>>

WebInit ==
  /\ webCookies = NoCookies
  /\ webLog = <<>>

LoginNoCsrf(csrftoken) ==
  /\ Len(webLog) < MaxWebCalls
  /\ Falsy(csrftoken)
  /\ webCookies' = CookiesAfterFailedLogin(webCookies)
  /\ webLog' = Append(webLog, WebCall("login", "Failed to get CSRF token from login page", FALSE, 1,
                                      webCookies, webCookies'))

LoginNoSession(csrftoken, sessionid) ==
  /\ Len(webLog) < MaxWebCalls
  /\ ~Falsy(csrftoken)
  /\ Falsy(sessionid)
  /\ webCookies' = CookiesAfterFailedLogin(webCookies)
  /\ webLog' = Append(webLog, WebCall("login", "Login failed (status 200). Check username/password.", FALSE, 2,
                                      webCookies, webCookies'))

LoginOk(csrftoken, sessionid, postCsrf) ==
  /\ Len(webLog) < MaxWebCalls
  /\ ~Falsy(csrftoken)
  /\ ~Falsy(sessionid)
  /\ webCookies' = NewCookies(sessionid, Coalesce(postCsrf, csrftoken))
  /\ webLog' = Append(webLog, WebCall("login", "none", FALSE, 2, webCookies, webCookies'))

DeleteNotLoggedIn ==
  /\ Len(webLog) < MaxWebCalls
  /\ NotLoggedIn(webCookies)
  /\ webLog' = Append(webLog, WebCall("deleteScrobble", "Not logged in", FALSE, 0, webCookies, webCookies))
  /\ UNCHANGED webCookies

DeleteSent(outcome) ==
  /\ Len(webLog) < MaxWebCalls
  /\ ~NotLoggedIn(webCookies)
  /\ webLog' = Append(webLog,
                      IF outcome \in {"true", "false"}
                      THEN WebCall("deleteScrobble", "none", outcome = "true", 1, webCookies, webCookies)
                      ELSE WebCall("deleteScrobble", ErrorMessage(outcome), FALSE, 1, webCookies, webCookies))
  /\ UNCHANGED webCookies

WebSpecInit == WebInit /\ DetectUnused /\ CacheUnused /\ HandlerUnused

WebNext ==
  \/ \E csrftoken \in LoginPageCsrfTokens :
       LoginNoCsrf(csrftoken) /\ UNCHANGED <<detectVars, cacheVars, handlerVars>>
  \/ \E csrftoken \in LoginPageCsrfTokens : \E sessionid \in LoginSessionIds :
       LoginNoSession(csrftoken, sessionid) /\ UNCHANGED <<detectVars, cacheVars, handlerVars>>
  \/ \E csrftoken \in LoginPageCsrfTokens : \E sessionid \in LoginSessionIds :
       \E postCsrf \in LoginPostCsrfTokens :
         LoginOk(csrftoken, sessionid, postCsrf) /\ UNCHANGED <<detectVars, cacheVars, handlerVars>>
  \/ DeleteNotLoggedIn /\ UNCHANGED <<detectVars, cacheVars, handlerVars>>
  \/ \E outcome \in DeleteOutcomes : DeleteSent(outcome) /\ UNCHANGED <<detectVars, cacheVars, handlerVars>>

WebSpec == WebSpecInit /\ [][WebNext]_vars

HandlerSpecInit == HandlerInit /\ DetectUnused /\ CacheUnused /\ WebUnused

HandlerNext ==
  \/ HLoadConfig /\ UNCHANGED <<detectVars, cacheVars, webVars, pageLog>>
  \/ HFetchPage /\ UNCHANGED <<detectVars, cacheVars, webVars>>
  \/ HNoScrobbles /\ UNCHANGED <<detectVars, cacheVars, webVars, pageLog>>
  \/ HNoDuplicates /\ UNCHANGED <<detectVars, cacheVars, webVars, pageLog>>
  \/ HDuplicatesFound /\ UNCHANGED <<detectVars, cacheVars, webVars, pageLog>>
  \/ HLoginOk /\ UNCHANGED <<detectVars, cacheVars, webVars, pageLog>>
  \/ HLoginFail /\ UNCHANGED <<detectVars, cacheVars, webVars, pageLog>>
  \/ \E outcome \in DeleteOutcomes : HDelete(outcome) /\ UNCHANGED <<detectVars, cacheVars, webVars, pageLog>>
  \/ HReLoginOk /\ UNCHANGED <<detectVars, cacheVars, webVars, pageLog>>
  \/ HReLoginFail /\ UNCHANGED <<detectVars, cacheVars, webVars, pageLog>>
  \/ HFinish /\ UNCHANGED <<detectVars, cacheVars, webVars, pageLog>>

HandlerSpec == HandlerSpecInit /\ [][HandlerNext]_vars

MaxTotalPages == 3

MaxPage == MaxTotalPages + 2

TotalPagesAnswers(p) == (0..MaxTotalPages) \cup {p + 1}

HFetchPageAnyTotal(reported) ==
  /\ hpc = "fetch"
  /\ LoopContinues(page, totalPages)
  /\ page <= MaxPage
  /\ LET res == [getRecentTracks(server.scrobbles, PageLimit, page) EXCEPT !.totalPages = reported]
     IN /\ allScrobbles' = allScrobbles \o res.tracks
        /\ totalPages' = res.totalPages
        /\ page' = page + 1
        /\ pageLog' = Append(pageLog, PageCall(page, res))
  /\ UNCHANGED <<env, config, hpc, server, result, summary, toDelete, delIdx, cookies, loginCalls, deleteCalls, emailsSent>>

PaginationInit ==
  /\ env = NoEnv
  /\ config = NoConfig
  /\ hpc = "start"
  /\ server \in HandlerStreams
  /\ page = 1
  /\ totalPages = 1
  /\ allScrobbles = <<>>
  /\ result = NoResult
  /\ summary = NoSummary
  /\ toDelete = <<>>
  /\ delIdx = 0
  /\ cookies = "undefined"
  /\ loginCalls = 0
  /\ deleteCalls = <<>>
  /\ emailsSent = 0
  /\ pageLog = <<>>

PaginationSpecInit == PaginationInit /\ DetectUnused /\ CacheUnused /\ WebUnused

PaginationNext ==
  \/ HLoadConfig /\ UNCHANGED <<detectVars, cacheVars, webVars, pageLog>>
  \/ \E reported \in TotalPagesAnswers(page) :
       HFetchPageAnyTotal(reported) /\ UNCHANGED <<detectVars, cacheVars, webVars>>
  \/ HNoScrobbles /\ UNCHANGED <<detectVars, cacheVars, webVars, pageLog>>
  \/ HNoDuplicates /\ UNCHANGED <<detectVars, cacheVars, webVars, pageLog>>
  \/ HDuplicatesFound /\ UNCHANGED <<detectVars, cacheVars, webVars, pageLog>>

PaginationSpec == PaginationSpecInit /\ [][PaginationNext]_vars

CacheSpecInit == CacheInit /\ DetectUnused /\ HandlerUnused /\ WebUnused

CacheNext ==
  \/ \E c \in 1..MaxCalls : \E artist \in CacheArtists : \E track \in CacheTracks :
       GetStart(c, artist, track) /\ UNCHANGED <<detectVars, handlerVars, webVars>>
  \/ \E c \in 1..MaxCalls : DynamoGetResolve(c) /\ UNCHANGED <<detectVars, handlerVars, webVars>>
  \/ \E c \in 1..MaxCalls : DynamoGetReject(c) /\ UNCHANGED <<detectVars, handlerVars, webVars>>
  \/ \E c \in 1..MaxCalls : \E str \in DurationStrings : ApiResolve(c, str) /\ UNCHANGED <<detectVars, handlerVars, webVars>>
  \/ \E c \in 1..MaxCalls : ApiReject(c) /\ UNCHANGED <<detectVars, handlerVars, webVars>>
  \/ \E c \in 1..MaxCalls : DynamoPutResolve(c) /\ UNCHANGED <<detectVars, handlerVars, webVars>>
  \/ \E c \in 1..MaxCalls : DynamoPutReject(c) /\ UNCHANGED <<detectVars, handlerVars, webVars>>

CacheSpec == CacheSpecInit /\ [][CacheNext]_vars

InFlight(c) == calls[c].pc \in {"dynamoGet", "api", "dynamoPut"}

GetStartSequential(c, artist, track) ==
  /\ \A d \in 1..MaxCalls : ~InFlight(d)
  /\ GetStart(c, artist, track)

SequentialCacheNext ==
  \/ \E c \in 1..MaxCalls : \E artist \in CacheArtists : \E track \in CacheTracks :
       GetStartSequential(c, artist, track) /\ UNCHANGED <<detectVars, handlerVars, webVars>>
  \/ \E c \in 1..MaxCalls : DynamoGetResolve(c) /\ UNCHANGED <<detectVars, handlerVars, webVars>>
  \/ \E c \in 1..MaxCalls : DynamoGetReject(c) /\ UNCHANGED <<detectVars, handlerVars, webVars>>
  \/ \E c \in 1..MaxCalls : \E str \in DurationStrings : ApiResolve(c, str) /\ UNCHANGED <<detectVars, handlerVars, webVars>>
  \/ \E c \in 1..MaxCalls : ApiReject(c) /\ UNCHANGED <<detectVars, handlerVars, webVars>>
  \/ \E c \in 1..MaxCalls : DynamoPutResolve(c) /\ UNCHANGED <<detectVars, handlerVars, webVars>>
  \/ \E c \in 1..MaxCalls : DynamoPutReject(c) /\ UNCHANGED <<detectVars, handlerVars, webVars>>

SequentialCacheSpec == CacheSpecInit /\ [][SequentialCacheNext]_vars

(* ---------------- the run of detectDuplicates ---------------- *)

GenericInput ==
  \E n \in 0..MaxLen :
    \E tr \in [1..n -> TrackKeys] :
      \E g \in [1..(IF n = 0 THEN 0 ELSE n - 1) -> Gaps] :
        /\ scrobbles = Reverse(Timeline(0, tr, g))
        /\ gapSeconds \in GapSecondsChoices
        /\ durations \in [TrackKeys -> DurationAnswers]

ScenarioInput ==
  \E inp \in ScenarioInputs :
    /\ scrobbles = inp.scrobbles
    /\ gapSeconds = inp.gapSeconds
    /\ durations = inp.durations

Init ==
  /\ GenericInput \/ ScenarioInput
  /\ CacheUnused
  /\ HandlerUnused
  /\ WebUnused
  /\ pc = "start"
  /\ sessions = <<>>
  /\ replayScrobbles = <<>>
  /\ durationDups = <<>>
  /\ incompleteReplayDups = <<>>
  /\ flagged = <<>>
  /\ detectionResults = <<>>

GroupStep ==
  /\ pc = "start"
  /\ sessions' = groupIntoSessions(scrobbles, gapSeconds)
  /\ pc' = "replay"
  /\ scrobbles' = AfterSpreadReverse(scrobbles)
  /\ UNCHANGED <<gapSeconds, durations, replayScrobbles, durationDups, incompleteReplayDups, flagged, detectionResults>>
  /\ UNCHANGED <<cacheVars, handlerVars, webVars>>

ReplayStep ==
  /\ pc = "replay"
  /\ replayScrobbles' = ReplayLoop(sessions, 1, <<>>)
  /\ pc' = "overlap"
  /\ UNCHANGED <<scrobbles, gapSeconds, durations, sessions, durationDups, incompleteReplayDups, flagged, detectionResults>>
  /\ UNCHANGED <<cacheVars, handlerVars, webVars>>

OverlapStep ==
  /\ pc = "overlap"
  /\ durationDups' = detectDurationOverlaps(scrobbles, durations)
  /\ pc' = "incomplete"
  /\ scrobbles' = AfterSpreadReverse(scrobbles)
  /\ UNCHANGED <<gapSeconds, durations, sessions, replayScrobbles, incompleteReplayDups, flagged, detectionResults>>
  /\ UNCHANGED <<cacheVars, handlerVars, webVars>>

IncompleteStep ==
  /\ pc = "incomplete"
  /\ incompleteReplayDups' = detectIncompleteReplays(scrobbles, durations)
  /\ pc' = "merge"
  /\ scrobbles' = AfterSpreadReverse(scrobbles)
  /\ UNCHANGED <<gapSeconds, durations, sessions, replayScrobbles, durationDups, flagged, detectionResults>>
  /\ UNCHANGED <<cacheVars, handlerVars, webVars>>

MergeStep ==
  /\ pc = "merge"
  /\ flagged' = Merge(replayScrobbles, durationDups, incompleteReplayDups)
  /\ detectionResults' = Append(detectionResults,
                                [flagged |-> flagged', sessionCount |-> Len(sessions),
                                 scrobbleCount |-> Len(scrobbles)])
  /\ pc' = "done"
  /\ UNCHANGED <<scrobbles, gapSeconds, durations, sessions, replayScrobbles, durationDups, incompleteReplayDups>>
  /\ UNCHANGED <<cacheVars, handlerVars, webVars>>

Next == GroupStep \/ ReplayStep \/ OverlapStep \/ IncompleteStep \/ MergeStep

Spec == Init /\ [][Next]_vars

MaxRuns == 2

CallAgain ==
  /\ pc = "done"
  /\ Len(detectionResults) < MaxRuns
  /\ pc' = "start"
  /\ sessions' = <<>>
  /\ replayScrobbles' = <<>>
  /\ durationDups' = <<>>
  /\ incompleteReplayDups' = <<>>
  /\ flagged' = <<>>
  /\ UNCHANGED <<scrobbles, gapSeconds, durations, detectionResults>>
  /\ UNCHANGED <<cacheVars, handlerVars, webVars>>

TwoRunNext == GroupStep \/ ReplayStep \/ OverlapStep \/ IncompleteStep \/ MergeStep \/ CallAgain

TwoRunSpec == Init /\ [][TwoRunNext]_vars

(* ---------------- properties ---------------- *)

ChronoInput == Reverse(scrobbles)

DurationOf(e) == durations[<<e.artist, e.name>>]

Grouped == pc # "start"

OverlapDone == pc \in {"incomplete", "merge", "done"}

FlaggedEvents == [i \in 1..Len(flagged) |-> flagged[i].scrobble]

StrictlyIncreasing(s) == \A i \in 1..Len(s) : \A j \in 1..Len(s) : i < j => s[i].uts < s[j].uts

(* C1: once groupIntoSessions has run, every session is non-empty and the
   sessions concatenated in order are exactly the reversed (chronological)
   input, so each event lies in exactly one session in chronological order;
   the empty input gives no sessions. *)
C1_PartitionCovers ==
  Grouped =>
    /\ \A i \in 1..Len(sessions) : Len(sessions[i].scrobbles) > 0
    /\ Flatten(sessions) = ChronoInput
    /\ (scrobbles = <<>> => sessions = <<>>)

C1_Witness ==
  /\ Grouped
  /\ Len(sessions) >= 2
  /\ \E i \in 1..Len(sessions) : Len(sessions[i].scrobbles) >= 2

(* C2: inside a session consecutive events are at most gapSeconds apart, the
   last event of a session and the first of the next are more than gapSeconds
   apart; hence a gap equal to gapSeconds never starts a session. *)
C2_SessionGaps ==
  Grouped =>
    /\ \A i \in 1..Len(sessions) :
         \A j \in 1..(Len(sessions[i].scrobbles) - 1) :
           sessions[i].scrobbles[j + 1].uts - sessions[i].scrobbles[j].uts <= gapSeconds
    /\ \A i \in 1..(Len(sessions) - 1) :
         sessions[i + 1].scrobbles[1].uts
           - sessions[i].scrobbles[Len(sessions[i].scrobbles)].uts > gapSeconds

C2_Witness ==
  /\ Grouped
  /\ Len(sessions) >= 2
  /\ \E i \in 1..Len(sessions) :
       \E j \in 1..(Len(sessions[i].scrobbles) - 1) :
         sessions[i].scrobbles[j + 1].uts - sessions[i].scrobbles[j].uts = gapSeconds

(* C3: the flagged list holds each event timestamp at most once. *)
C3_FlaggedUnique ==
  pc = "done" =>
    \A i \in 1..Len(flagged) : \A j \in 1..Len(flagged) :
      i # j => flagged[i].scrobble.uts # flagged[j].scrobble.uts

C3_Witness ==
  /\ pc = "done"
  /\ Len(flagged) >= 2
  /\ \E e \in Range(durationDups) : e \in Range(incompleteReplayDups)
  /\ \E e \in Range(replayScrobbles) : e \in Range(durationDups)

(* C4: the reason of a flagged event follows the priority: replay and overlap
   give "both"; replay without overlap gives "session-replay" (whether or not
   the incomplete-replay detector flagged it); overlap without replay gives
   "duration-overlap"; incomplete-replay alone gives "incomplete-replay"; an
   event no detector flagged is absent. *)
C4_ReasonPriority ==
  pc = "done" =>
    /\ Range(FlaggedEvents) \subseteq Range(ChronoInput)
    /\ \A e \in Range(ChronoInput) :
         LET r == e \in Range(replayScrobbles)
             o == e \in Range(durationDups)
             ic == e \in Range(incompleteReplayDups)
             reasons == {flagged[i].reason : i \in {k \in 1..Len(flagged) : flagged[k].scrobble = e}}
         IN reasons = IF r /\ o THEN {"both"}
                      ELSE IF r THEN {"session-replay"}
                      ELSE IF o THEN {"duration-overlap"}
                      ELSE IF ic THEN {"incomplete-replay"}
                      ELSE {}

C4_Witness ==
  /\ pc = "done"
  /\ \E e \in Range(replayScrobbles) :
       e \in Range(incompleteReplayDups) /\ e \notin Range(durationDups)
  /\ Len(flagged) >= 2

(* C5: the flagged list is three blocks: the session-replay events (labelled
   session-replay or both) in session order, then the duration-overlap events
   not yet listed in chronological order, then the incomplete-replay events
   not yet listed in chronological order. *)
C5_ThreeBlocks ==
  pc = "done" =>
    \E k1 \in 0..Len(flagged) : \E k2 \in k1..Len(flagged) :
      /\ SubSeq(FlaggedEvents, 1, k1) = replayScrobbles
      /\ \A i \in 1..k1 : flagged[i].reason \in {"session-replay", "both"}
      /\ \A i \in (k1 + 1)..k2 :
           /\ flagged[i].reason = "duration-overlap"
           /\ flagged[i].scrobble \in Range(durationDups)
      /\ \A i \in (k2 + 1)..Len(flagged) :
           /\ flagged[i].reason = "incomplete-replay"
           /\ flagged[i].scrobble \in Range(incompleteReplayDups)
      /\ StrictlyIncreasing(SubSeq(FlaggedEvents, 1, k1))
      /\ StrictlyIncreasing(SubSeq(FlaggedEvents, k1 + 1, k2))
      /\ StrictlyIncreasing(SubSeq(FlaggedEvents, k2 + 1, Len(flagged)))

C5_Witness ==
  /\ pc = "done"
  /\ Len(flagged) = 3
  /\ flagged[1].reason \in {"session-replay", "both"}
  /\ flagged[2].reason = "duration-overlap"
  /\ flagged[3].reason = "incomplete-replay"
  /\ flagged[3].scrobble.uts < flagged[1].scrobble.uts

(* C6: for an adjacent session pair whose last/first events match, the
   session-replay detector flags the first event of the later session exactly
   when that session has one event, or the duration is unknown, or the gap to
   its second event is below half the duration. *)
C6_ReplayHalfDurationRule ==
  pc \notin {"start", "replay"} =>
    \A i \in 1..(Len(sessions) - 1) :
      LET before == sessions[i].scrobbles
          after == sessions[i + 1].scrobbles
          d == DurationOf(after[1])
      IN SameTrack(before[Len(before)], after[1]) =>
           (after[1] \in Range(replayScrobbles)
              <=> \/ Len(after) = 1
                  \/ d = NULL \/ d = 0
                  \/ (after[2].uts - after[1].uts) * MsPerSec * Tenths < d * ReplayTenths)

(* C7: when the input splits into exactly two sessions and the second is a
   single event matching the last event of the first, the claim as stated has
   that event flagged with reason "session-replay" whatever the lookup
   returns. *)
C7_SingleEventAlwaysSessionReplay ==
  (/\ pc = "done"
   /\ Len(sessions) = 2
   /\ Len(sessions[2].scrobbles) = 1
   /\ SameTrack(sessions[1].scrobbles[Len(sessions[1].scrobbles)], sessions[2].scrobbles[1]))
  => \E i \in 1..Len(flagged) :
       /\ flagged[i].scrobble = sessions[2].scrobbles[1]
       /\ flagged[i].reason = "session-replay"

(* C7 amended: in that input the event is flagged exactly once, with reason
   "both" when the duration is known, non-zero and the gap to the previous
   event is below 0.9 x durationSeconds, and with reason "session-replay" in
   every other case (lookup null, 0, or 0.9 x durationSeconds <= gap). *)
C7_SingleEventReplayOrBoth ==
  (/\ pc = "done"
   /\ Len(sessions) = 2
   /\ Len(sessions[2].scrobbles) = 1
   /\ SameTrack(sessions[1].scrobbles[Len(sessions[1].scrobbles)], sessions[2].scrobbles[1]))
  => LET e == sessions[2].scrobbles[1]
         p == sessions[1].scrobbles[Len(sessions[1].scrobbles)]
         d == DurationOf(e)
         idx == {i \in 1..Len(flagged) : flagged[i].scrobble = e}
     IN /\ Cardinality(idx) = 1
        /\ \A i \in idx :
             flagged[i].reason =
               IF d # NULL /\ d # 0 /\ (e.uts - p.uts) * MsPerSec * Tenths < d * OverlapTenths
               THEN "both" ELSE "session-replay"

C7_Witness ==
  /\ pc = "done"
  /\ Len(sessions) = 2
  /\ Len(sessions[1].scrobbles) = 2
  /\ Len(sessions[2].scrobbles) = 1
  /\ SameTrack(sessions[1].scrobbles[2], sessions[2].scrobbles[1])
  /\ ~SameTrack(sessions[1].scrobbles[1], sessions[2].scrobbles[1])
  /\ DurationOf(sessions[2].scrobbles[1]) > 0
  /\ \E i \in 1..Len(flagged) :
       /\ flagged[i].scrobble = sessions[2].scrobbles[1]
       /\ flagged[i].reason = "session-replay"

InReplayShortGapScenario ==
  /\ scrobbles = ReplayShortGapScenario.scrobbles
  /\ gapSeconds = ReplayShortGapScenario.gapSeconds
  /\ durations = ReplayShortGapScenario.durations

(* C8: with gapSeconds 1800, duration 300000 ms for (X,Song1) and the events
   (X,Song1,1000), (X,Song1,1900), (Y,Song2,1950), the claim as stated has the
   event at 1900 flagged with reason "session-replay". *)
C8_ScenarioFlagsSessionReplay ==
  (pc = "done" /\ InReplayShortGapScenario) =>
    \E i \in 1..Len(flagged) :
      /\ flagged[i].scrobble.uts = 1900
      /\ flagged[i].reason = "session-replay"

(* C8 amended: in that scenario the three events form one session (both gaps
   are at most 1800) and the only flagged event is (X,Song1,1900), with reason
   "incomplete-replay". *)
C8_ScenarioFlagsIncompleteReplay ==
  (pc = "done" /\ InReplayShortGapScenario) =>
    /\ Len(sessions) = 1
    /\ flagged = << [scrobble |-> [artist |-> "X", name |-> "Song1", uts |-> 1900],
                     reason |-> "incomplete-replay"] >>

C8_Witness == pc = "done" /\ InReplayShortGapScenario /\ Len(flagged) = 1

(* C9: for chronologically adjacent events of the same track with a known
   positive duration, the duration-overlap detector flags the later one
   exactly when gap < 0.9 x durationSeconds: a gap equal to the threshold is
   not flagged, a gap one second below it is. *)
C9_OverlapStrictThreshold ==
  OverlapDone =>
    \A i \in 2..Len(ChronoInput) :
      LET prev == ChronoInput[i - 1]
          curr == ChronoInput[i]
          d == DurationOf(curr)
          gap == curr.uts - prev.uts
      IN (SameTrack(prev, curr) /\ d # NULL /\ d > 0) =>
           /\ (gap * MsPerSec * Tenths = d * OverlapTenths => curr \notin Range(durationDups))
           /\ ((gap + 1) * MsPerSec * Tenths = d * OverlapTenths => curr \in Range(durationDups))
           /\ (curr \in Range(durationDups) <=> gap * MsPerSec * Tenths < d * OverlapTenths)

C9_Witness ==
  /\ OverlapDone
  /\ \E i \in 2..Len(ChronoInput) : \E j \in 2..Len(ChronoInput) :
       LET d == DurationOf(ChronoInput[i])
       IN /\ SameTrack(ChronoInput[i - 1], ChronoInput[i])
          /\ SameTrack(ChronoInput[j - 1], ChronoInput[j])
          /\ SameTrack(ChronoInput[i], ChronoInput[j])
          /\ d > 0
          /\ (ChronoInput[i].uts - ChronoInput[i - 1].uts) * MsPerSec * Tenths = d * OverlapTenths
          /\ (ChronoInput[j].uts - ChronoInput[j - 1].uts + 1) * MsPerSec * Tenths = d * OverlapTenths
          /\ ChronoInput[i] \notin Range(durationDups)
          /\ ChronoInput[j] \in Range(durationDups)

(* C10: the duration-overlap detector flags an event only if its immediate
   chronological predecessor has the same artist and track and the duration
   is known and non-zero; so the first event of the stream and the first
   event of every maximal same-track run are never flagged by it. *)
C10_OverlapOnlyAfterSameTrack ==
  OverlapDone =>
    /\ \A e \in Range(durationDups) :
         \E i \in 2..Len(ChronoInput) :
           /\ ChronoInput[i] = e
           /\ SameTrack(ChronoInput[i - 1], e)
           /\ DurationOf(e) # NULL
           /\ DurationOf(e) # 0
    /\ \A i \in 1..Len(ChronoInput) :
         (i = 1 \/ ~SameTrack(ChronoInput[i - 1], ChronoInput[i]))
           => ChronoInput[i] \notin Range(durationDups)

C10_Witness ==
  /\ OverlapDone
  /\ Len(durationDups) >= 1
  /\ \E i \in 2..(Len(ChronoInput) - 1) :
       /\ ~SameTrack(ChronoInput[i - 1], ChronoInput[i])
       /\ ChronoInput[i] \notin Range(durationDups)
       /\ ChronoInput[i + 1] \in Range(durationDups)

IncompleteDone == pc \in {"merge", "done"}

MaximalRuns ==
  {r \in (1..Len(ChronoInput)) \X (1..Len(ChronoInput)) :
     /\ r[1] <= r[2]
     /\ \A i \in r[1]..r[2] : SameTrack(ChronoInput[r[1]], ChronoInput[i])
     /\ (r[1] = 1 \/ ~SameTrack(ChronoInput[r[1] - 1], ChronoInput[r[1]]))
     /\ (r[2] = Len(ChronoInput) \/ ~SameTrack(ChronoInput[r[2]], ChronoInput[r[2] + 1]))}

PlayCompleted(i, d) ==
  \/ i = Len(ChronoInput)
  \/ (i < Len(ChronoInput)
      /\ (ChronoInput[i + 1].uts - ChronoInput[i].uts) * MsPerSec * Tenths >= d * OverlapTenths)

IncompleteFlaggedIn(r) == {i \in r[1]..r[2] : ChronoInput[i] \in Range(incompleteReplayDups)}

(* C11: the duration-overlap detector's result is determined by the events
   and the lookup answers alone: the flagged events are exactly the later
   events of adjacent same-track pairs with a known non-zero duration and
   gap < 0.9 x durationSeconds, whatever gapSeconds is and whether or not the
   pair straddles a session boundary; such a straddling event that is also a
   session replay gets reason "both". *)
C11_OverlapIgnoresSessions ==
  /\ OverlapDone =>
       Range(durationDups) =
         {ChronoInput[i] : i \in {k \in 2..Len(ChronoInput) :
             /\ SameTrack(ChronoInput[k - 1], ChronoInput[k])
             /\ DurationOf(ChronoInput[k]) # NULL
             /\ DurationOf(ChronoInput[k]) # 0
             /\ (ChronoInput[k].uts - ChronoInput[k - 1].uts) * MsPerSec * Tenths
                  < DurationOf(ChronoInput[k]) * OverlapTenths}}
  /\ pc = "done" =>
       \A e \in Range(durationDups) :
         e \in Range(replayScrobbles) =>
           \E i \in 1..Len(flagged) : flagged[i].scrobble = e /\ flagged[i].reason = "both"

C11_Witness ==
  /\ pc = "done"
  /\ \E i \in 1..(Len(sessions) - 1) :
       LET e == sessions[i + 1].scrobbles[1]
       IN /\ e \in Range(durationDups)
          /\ e \in Range(replayScrobbles)
          /\ \E k \in 1..Len(flagged) : flagged[k].scrobble = e /\ flagged[k].reason = "both"

(* C12: for every maximal run of at least two same-track events with a known
   positive duration, the incomplete-replay detector flags exactly the
   non-completed events when some event of the run is completed, and exactly
   all events but the first when none is; an event is completed iff it is the
   last of the stream or its gap to the next stream event is at least
   0.9 x durationSeconds.  Runs of length 1 and runs with unknown or zero
   duration contribute no flags. *)
C12_IncompleteRunRule ==
  IncompleteDone =>
    \A r \in MaximalRuns :
      LET d == DurationOf(ChronoInput[r[1]])
      IN IncompleteFlaggedIn(r) =
           IF r[2] > r[1] /\ d # NULL /\ d > 0
           THEN IF \E i \in r[1]..r[2] : PlayCompleted(i, d)
                THEN {i \in r[1]..r[2] : ~PlayCompleted(i, d)}
                ELSE (r[1] + 1)..r[2]
           ELSE {}

C12_Witness ==
  /\ IncompleteDone
  /\ \E r \in MaximalRuns :
       LET d == DurationOf(ChronoInput[r[1]])
       IN /\ r[2] > r[1]
          /\ d > 0
          /\ \A i \in r[1]..r[2] : ~PlayCompleted(i, d)
          /\ IncompleteFlaggedIn(r) = (r[1] + 1)..r[2]

(* C13: the chronologically last event of the stream is never flagged by the
   incomplete-replay detector. *)
C13_LastEventNeverIncomplete ==
  (IncompleteDone /\ Len(ChronoInput) > 0) =>
    ChronoInput[Len(ChronoInput)] \notin Range(incompleteReplayDups)

C13_Witness ==
  /\ IncompleteDone
  /\ Len(ChronoInput) >= 2
  /\ SameTrack(ChronoInput[Len(ChronoInput) - 1], ChronoInput[Len(ChronoInput)])
  /\ ChronoInput[Len(ChronoInput) - 1] \in Range(incompleteReplayDups)
  /\ ChronoInput[Len(ChronoInput)] \notin Range(incompleteReplayDups)

InScenario(sc) ==
  /\ scrobbles = sc.scrobbles
  /\ gapSeconds = sc.gapSeconds
  /\ durations = sc.durations

(* C14: for the stream (A,T) at t=0, t=30, t=60 with duration 200 s the claim
   as stated has the incomplete-replay detector keep t=0 and flag t=30 and
   t=60. *)
C14_RunKeepsFirst ==
  (IncompleteDone /\ InScenario(RunNoneCompletedScenario)) =>
    {incompleteReplayDups[i].uts : i \in 1..Len(incompleteReplayDups)} = {30, 60}

(* C14 amended: in that stream the event at t=60 is the last event of the
   stream and so completed; the detector flags t=0 and t=30, in that order,
   and keeps t=60. *)
C14_RunKeepsLast ==
  (IncompleteDone /\ InScenario(RunNoneCompletedScenario)) =>
    incompleteReplayDups = << [artist |-> "A", name |-> "T", uts |-> 0],
                              [artist |-> "A", name |-> "T", uts |-> 30] >>

C14_Witness ==
  /\ IncompleteDone
  /\ InScenario(RunNoneCompletedScenario)
  /\ Len(incompleteReplayDups) = 2

(* C15: for the stream (A,T) at t=0, t=30, t=250 with duration 200 s the
   incomplete-replay detector flags only the event at t=0. *)
C15_RunMixedFlagsFirstOnly ==
  (IncompleteDone /\ InScenario(RunMixedCompletionScenario)) =>
    incompleteReplayDups = << [artist |-> "A", name |-> "T", uts |-> 0] >>

C15_Witness ==
  /\ IncompleteDone
  /\ InScenario(RunMixedCompletionScenario)
  /\ Len(incompleteReplayDups) = 1

AllDurationsUnknown == \A k \in DOMAIN durations : durations[k] \in {NULL, 0}

ReplayMatchIndexes ==
  {i \in 1..(Len(sessions) - 1) :
     SameTrack(sessions[i].scrobbles[Len(sessions[i].scrobbles)], sessions[i + 1].scrobbles[1])}

(* C16: when every lookup answers null or zero, the duration-overlap and the
   incomplete-replay detector flag nothing and the flagged list is exactly the
   first events of the non-first sessions that match the previous session's
   last event, in session order, each with reason "session-replay". *)
C16_UnknownDurationsOnlyReplay ==
  (pc = "done" /\ AllDurationsUnknown) =>
    /\ durationDups = <<>>
    /\ incompleteReplayDups = <<>>
    /\ Range(FlaggedEvents) = {sessions[i + 1].scrobbles[1] : i \in ReplayMatchIndexes}
    /\ Len(flagged) = Cardinality(ReplayMatchIndexes)
    /\ StrictlyIncreasing(FlaggedEvents)
    /\ \A i \in 1..Len(flagged) : flagged[i].reason = "session-replay"

C16_Witness ==
  /\ pc = "done"
  /\ AllDurationsUnknown
  /\ \E k \in DOMAIN durations : durations[k] = 0
  /\ \E k \in DOMAIN durations : durations[k] = NULL
  /\ Len(flagged) >= 1
  /\ \E i \in 1..Len(sessions) :
       /\ Len(sessions[i].scrobbles) >= 2
       /\ SameTrack(sessions[i].scrobbles[1], sessions[i].scrobbles[2])

(* C17: a get whose track-info request was rejected resolves to null, and a
   get whose best-effort dynamoPut was rejected resolves to the duration; a
   get rejects only when dynamoGet itself rejected, hence never for a cache
   built without dynamoGet (as the handler builds it). *)
C17_FailedLookupResolvesNull ==
  \A c \in DOMAIN calls :
    /\ calls[c].api = "rejected" => (calls[c].pc = "resolved" /\ calls[c].value = NULL)
    /\ calls[c].put = "rejected" => (calls[c].pc = "resolved" /\ calls[c].value > 0)
    /\ calls[c].pc = "threw" => (calls[c].dget = "rejected" /\ hasDynamoGet)

C17_Witness ==
  /\ ~hasDynamoGet
  /\ \E c \in DOMAIN calls : calls[c].api = "rejected" /\ calls[c].pc = "resolved"
  /\ \E c \in DOMAIN calls : calls[c].put = "rejected" /\ calls[c].pc = "resolved"

(* C22: detectDuplicates is deterministic: a second call on the same event
   list, with the same gapSeconds and the same lookup answers, returns the same
   DetectionResult as the first (flagged events, reasons, order, sessionCount
   and scrobbleCount). *)
C22_SecondRunSameResult ==
  \A r \in 1..Len(detectionResults) : detectionResults[r] = detectionResults[1]

C22_Witness ==
  /\ Len(detectionResults) = 2
  /\ Len(detectionResults[2].flagged) >= 2
  /\ \E i \in 1..Len(detectionResults[2].flagged) :
       \E j \in 1..Len(detectionResults[2].flagged) :
         detectionResults[2].flagged[i].reason # detectionResults[2].flagged[j].reason
  /\ detectionResults[2].sessionCount >= 2

(* C23: no step of detectDuplicates changes the caller's event list, and the
   scrobbleCount of the returned result is the length of that list. *)
C23_InputListUnchanged ==
  [][/\ scrobbles' = scrobbles
     /\ \A r \in 1..Len(detectionResults') :
          detectionResults'[r].scrobbleCount = Len(scrobbles)]_vars

C23_Witness ==
  /\ pc = "done"
  /\ Len(scrobbles) = MaxLen
  /\ scrobbles # Reverse(scrobbles)
  /\ Len(detectionResults) = 1
  /\ detectionResults[1].scrobbleCount = MaxLen
  /\ Len(flagged) >= 1

(* C24: in the merged flagged list of detectDuplicates every maximal run of
   consecutive same-track events keeps at least one event unflagged. *)
C24_EveryRunKeepsOne ==
  pc = "done" =>
    \A r \in MaximalRuns : \E i \in r[1]..r[2] : ChronoInput[i] \notin Range(FlaggedEvents)

(* ---------------- properties of the handler ---------------- *)

ConfigLoaded == hpc \notin {"unused", "start"}

HandlerEnded == hpc \in {"returned", "threw"}

(* C18: in a live run with maxDeletionsPerRun >= 0 deleteScrobble is called at
   most maxDeletionsPerRun times, the i-th call is for the i-th entry of the
   flagged list, and circuitBreakerTriggered is true exactly when the flagged
   list is longer than maxDeletionsPerRun. *)
C18_CircuitBreakerCapsDeletions ==
  (ConfigLoaded /\ ~config.dryRun /\ config.maxDeletionsPerRun >= 0) =>
    /\ Len(deleteCalls) <= config.maxDeletionsPerRun
    /\ Len(deleteCalls) <= Len(result.flagged)
    /\ \A i \in 1..Len(deleteCalls) :
         /\ deleteCalls[i].artist = result.flagged[i].scrobble.artist
         /\ deleteCalls[i].track = result.flagged[i].scrobble.name
         /\ deleteCalls[i].timestamp = result.flagged[i].scrobble.uts
    /\ summary.circuitBreakerTriggered <=> Len(result.flagged) > config.maxDeletionsPerRun

C18_Witness ==
  /\ hpc = "returned"
  /\ ~config.dryRun
  /\ config.maxDeletionsPerRun = 2
  /\ Len(result.flagged) = 3
  /\ Len(deleteCalls) = 2
  /\ summary.circuitBreakerTriggered

(* C19: loadConfig sets dryRun to false only when DRY_RUN is exactly "false",
   and in a run with dryRun true login and deleteScrobble are never called and
   the deleted and failed counters stay 0. *)
C19_DryRunDefaultNoSideEffects ==
  ConfigLoaded =>
    /\ ~config.dryRun <=> env.DRY_RUN = "false"
    /\ config.dryRun =>
         /\ loginCalls = 0
         /\ deleteCalls = <<>>
         /\ summary.deleted = 0
         /\ summary.failed = 0
         /\ cookies = "undefined"

C19_Witness ==
  /\ hpc = "returned"
  /\ env.DRY_RUN = "FALSE"
  /\ config.dryRun
  /\ summary.dryRun
  /\ Len(toDelete) > 0
  /\ Len(summary.deletedItems) = Len(toDelete)

(* C20: every handler invocation with SNS_TOPIC_ARN set has sent exactly one
   summary email when it finishes, whether it returns or ends with the error
   of a failed web login. *)
C20_OneSummaryEmailPerInvocation ==
  (env.SNS_TOPIC_ARN /\ HandlerEnded) => emailsSent = 1

LiveRun == ConfigLoaded /\ ~config.dryRun

LoopRanToEnd == hpc = "returned" /\ delIdx > Len(toDelete)

(* C25: each deleteScrobble attempt increments exactly one of summary.deleted
   and summary.failed, so deleted + failed is always the number of attempts
   made, never more than the length of toDelete, and equal to that length when
   the loop has run to its end. *)
C25_DeletedPlusFailedCountsAttempts ==
  /\ [](LiveRun =>
          /\ summary.deleted + summary.failed = Len(deleteCalls)
          /\ summary.deleted + summary.failed <= Len(toDelete)
          /\ LoopRanToEnd => summary.deleted + summary.failed = Len(toDelete))
  /\ [][Len(deleteCalls') = Len(deleteCalls) + 1 =>
          \/ summary'.deleted = summary.deleted + 1 /\ summary'.failed = summary.failed
          \/ summary'.deleted = summary.deleted /\ summary'.failed = summary.failed + 1]_vars

C25_Witness ==
  /\ LoopRanToEnd
  /\ ~config.dryRun
  /\ Len(toDelete) = 2
  /\ summary.deleted = 1
  /\ summary.failed = 1
  /\ loginCalls = 2

Answered403 == {i \in 1..Len(deleteCalls) : deleteCalls[i].outcome = "status403"}

NotDeleted == {i \in 1..Len(deleteCalls) : deleteCalls[i].outcome # "true"}

LastAnswered403 == Len(deleteCalls) > 0 /\ Len(deleteCalls) \in Answered403

(* C26: a deleteScrobble that fails with a 403 is counted as failed and is not
   retried; login is called once more before the next deletion and for no
   other error; when that re-login throws no further deleteScrobble call is
   made, and when it succeeds the loop goes on with the next scrobble. *)
C26_ReloginOnlyAfter403 ==
  (LiveRun /\ loginCalls > 0 /\ hpc \in {"delete", "relogin", "stopped", "returned"}) =>
    /\ \A i \in 1..Len(deleteCalls) :
         /\ i <= Len(toDelete)
         /\ deleteCalls[i].timestamp = toDelete[i].scrobble.uts
    /\ summary.failed = Cardinality(NotDeleted)
    /\ loginCalls = 1 + Cardinality(Answered403) - (IF hpc = "relogin" THEN 1 ELSE 0)
    /\ hpc = "delete" => Len(deleteCalls) = delIdx - 1
    /\ hpc \in {"relogin", "stopped"} => (Len(deleteCalls) = delIdx /\ LastAnswered403)
    /\ hpc = "returned" =>
         \/ Len(deleteCalls) = Len(toDelete)
         \/ Len(deleteCalls) = delIdx /\ LastAnswered403

C26_Witness ==
  /\ hpc = "returned"
  /\ ~config.dryRun
  /\ Len(deleteCalls) = 2
  /\ deleteCalls[1].outcome = "status403"
  /\ deleteCalls[2].outcome = "statusNotOk"
  /\ loginCalls = 2
  /\ summary.failed = 2

RECURSIVE TracksOf(_)
TracksOf(log) == IF log = <<>> THEN <<>> ELSE log[1].tracks \o TracksOf(Tail(log))

LoopEnded == hpc \notin {"start", "fetch"} \/ (hpc = "fetch" /\ page > totalPages)

ReportsAtMost(bound) == \A i \in 1..Len(pageLog) : pageLog[i].totalPages <= bound

(* C29: the pagination loop terminates whenever every getRecentTracks
   response reports a finite totalPages; in finite-run form, with responses
   that each report a finite number the loop has ended before it asks for a
   page beyond MaxPage. *)
C29_LoopEndsForFiniteReports ==
  (hpc = "fetch" /\ page > MaxPage) => page > totalPages

(* The order of the page requests: the loop requests pages 1, 2, ... in
   increasing order, each once, the next one only while it is at most the
   totalPages of the most recent response; it appends the returned tracks in
   page order; and when every response reports at most N pages it ends after
   at most max(N, 1) requests. *)
PagesInOrderBoundedReports ==
  /\ \A i \in 1..Len(pageLog) : pageLog[i].page = i
  /\ \A i \in 2..Len(pageLog) : pageLog[i].page <= pageLog[i - 1].totalPages
  /\ hpc # "start" => page = Len(pageLog) + 1
  /\ Len(pageLog) > 0 => totalPages = pageLog[Len(pageLog)].totalPages
  /\ allScrobbles = TracksOf(pageLog)
  /\ LoopEnded => (Len(pageLog) >= 1 /\ Len(pageLog) >= totalPages)
  /\ \A n \in 0..MaxTotalPages :
       ReportsAtMost(n) => (Len(pageLog) <= Max(n, 1) /\ (page > Max(n, 1) => LoopEnded))

PagesInOrderWitness ==
  /\ LoopEnded
  /\ hpc = "returned"
  /\ Len(pageLog) = 2
  /\ ReportsAtMost(MaxTotalPages)
  /\ pageLog[1].totalPages = 2
  /\ pageLog[2].totalPages = 2
  /\ Len(pageLog[1].tracks) = PageLimit
  /\ Len(allScrobbles) = 3

(* ---------------- properties of the duration cache ---------------- *)

(* C21: get is idempotent per case-normalized key: all get calls for the same
   lowercased artist::track key on one cache instance return the same value,
   also when two calls for the key overlap in time. *)
C21_SameKeySameValue ==
  \A r1 \in returned : \A r2 \in returned : r1.key = r2.key => r1.value = r2.value

(* C28: for sequential get calls client.getTrackInfo is called at most once
   per lowercased artist::track key; every outcome of the API call (a value,
   null for a failure or a zero or unparseable duration) and every dynamoGet
   hit is in memory afterwards, and a dynamoGet hit never starts an API call. *)
C28_ApiAtMostOncePerKey ==
  /\ \A k \in CacheKeys : apiCalls[k] <= 1
  /\ \A c \in DOMAIN calls :
       /\ calls[c].dget = "hit" => (calls[c].api = "none" /\ calls[c].key \in DOMAIN mem)
       /\ calls[c].api \in {"ok", "rejected"} => calls[c].key \in DOMAIN mem
       /\ calls[c].api = "rejected" => mem[calls[c].key] = NULL
  /\ \A k \in DOMAIN mem : apiCalls[k] = 1 \/ mem[k] # NULL

C28_Witness ==
  \E c \in DOMAIN calls : \E d \in DOMAIN calls :
    /\ c # d
    /\ calls[c].key = calls[d].key
    /\ calls[c].artist # calls[d].artist
    /\ calls[c].api = "ok"
    /\ calls[c].value = NULL
    /\ calls[d].pc = "resolved"
    /\ calls[d].api = "none"
    /\ calls[d].dget = "none"
    /\ calls[d].value = NULL
    /\ apiCalls[calls[c].key] = 1
    /\ started = MaxGets

(* ---------------- properties of the web client ---------------- *)

LoginSucceededBefore(i) ==
  \E j \in 1..(i - 1) : webLog[j].op = "login" /\ webLog[j].error = "none"

(* C27: deleteScrobble throws "Not logged in" and sends no request exactly when
   no earlier login call on the client has succeeded; a login call that fails
   throws and leaves the stored session cookies as they were before the call. *)
C27_NotLoggedInUntilLoginSucceeds ==
  \A i \in 1..Len(webLog) :
    /\ (webLog[i].op = "deleteScrobble" /\ ~LoginSucceededBefore(i)) =>
         (webLog[i].error = "Not logged in" /\ webLog[i].sent = 0)
    /\ (webLog[i].op = "deleteScrobble" /\ LoginSucceededBefore(i)) =>
         (webLog[i].error # "Not logged in" /\ webLog[i].sent = 1)
    /\ (webLog[i].op = "login" /\ webLog[i].error # "none") => webLog[i].after = webLog[i].before

C27_Witness ==
  /\ Len(webLog) = 3
  /\ webLog[1].op = "login" /\ webLog[1].error = "none"
  /\ webLog[2].op = "login" /\ webLog[2].error # "none"
  /\ webLog[2].after = webLog[1].after
  /\ webLog[3].op = "deleteScrobble" /\ webLog[3].sent = 1

====
